---- MODULE Spec2Model ----
(***************************************************************************)
(* A model of the Parakeet Whisper-compatible transcription service:       *)
(*   audio.py          split_audio_into_chunks, convert_audio_to_wav       *)
(*   transcription.py  transcribe_audio_chunk                              *)
(*   diarization       Diarizer.diarize, Diarizer.merge_with_transcription *)
(*   api.py            startup_event, transcribe_audio (the POST handler)   *)
(*                                                                         *)
(* Times are integers.  An audio file is a number of frames; FrameRate     *)
(* frames make one second, so a duration of frames / rate seconds is kept  *)
(* exact by comparing frames with seconds * FrameRate.  Segment and turn   *)
(* times are counted in frames as well.                                    *)
(***************************************************************************)
EXTENDS Integers, Sequences, FiniteSets, TLC

\* ------------------------------------------------------------------ bounds
\* Frames per second of the converted audio: the time unit of the model
\* (ffmpeg's -ar 16000, scaled down; only chunk_duration * FrameRate and
\* the frames of a file enter the computations).
FrameRate == 1
\* The longest audio file, in frames.
MaxFrames == 7
\* The largest configured chunk duration, in seconds.
MaxChunkDuration == 3
\* Whole requests (Spec): the longest audio file.
HandlerFrames == 3
\* The chunk loop (SpecChunks): the most chunks and the most timestamped
\* segments of a chunk.
MaxChunks == 3
MaxSegs == 1
\* Speaker labels in the text (SpecText): the seconds of the audio file.
TextFrames == 4
\* The subtitle formats (SpecFormat): the most segments and the longest text.
MaxFmtSegs == 2
MaxTextLen == 4
\* The process (SpecServer): the requests and the most chunks of a request.
MaxRequests == 2
MaxReqChunks == 2
\* Speaker alignment (SpecMerge): the length of the audio file, the most
\* turns of a diarization and the most segments of the transcript.
MergeFrames == 4
MaxTurns == 2
MergeSegs == 1

\* ------------------------------------------------------------------ state
VARIABLES
    asr_model,          \* api.py global asr_model: TRUE when a model object is loaded
    hf_token,           \* config.hf_token is set
    chunk_duration,     \* config.chunk_duration, seconds
    cfg_include,        \* config.include_diarization_in_text
    pc,                 \* position of the request handler
    response_format,    \* form field
    diarize,            \* form field
    include_diarization_in_text,   \* form field: "None", "True" or "False"
    files,              \* the temporary files that exist on disk
    duration,           \* frames of the converted WAV file
    wav_readable,       \* wave.open can read the converted WAV file
    num_chunks,         \* split_audio_into_chunks: num_chunks
    chunk_paths,        \* split_audio_into_chunks: chunk_paths
    ffmpeg_calls,       \* the ffmpeg invocations of split_audio_into_chunks, in order
    audio_chunks,       \* transcribe_audio: audio_chunks (<<>> until the split returns)
    diarizer,           \* transcribe_audio: diarizer: "None", or the state of its pipeline
    diarization_result, \* transcribe_audio: diarization_result: <<>> for None, else <<turns>>
    i,                  \* transcribe_audio: index of the chunk loop
    all_text,           \* transcribe_audio: all_text
    all_segments,       \* transcribe_audio: all_segments
    raw_segments,       \* history: per chunk, the offset added, the segments as
                        \* transcribe_audio_chunk returned them, what
                        \* model.transcribe did and the path transcribed
    full_text,          \* transcribe_audio: full_text
    status,             \* HTTP status of the response (0: none yet)
    model_loaded,       \* model_loaded of the last GET /health: "None" before any
    fmt_segments,       \* format_srt, format_vtt: the argument segments
    fmt_pc,             \* format_srt, format_vtt: position ("off": not called)
    fmt_i,              \* format_srt, format_vtt: loop index
    srt_content,        \* format_srt: srt_content, a sequence of characters
    vtt_content,        \* format_vtt: vtt_content, a sequence of characters
    loop_owner,         \* the request whose coroutine runs on the event loop (0: none)
    requests,           \* per request of the process: position of its handler and
                        \* chunks left to transcribe
    model_loads,        \* history: calls of load_model
    pipeline_loads      \* history: diarization pipelines instantiated

vars == <<asr_model, hf_token, chunk_duration, cfg_include, pc, response_format,
          diarize, include_diarization_in_text, files, duration, wav_readable,
          num_chunks, chunk_paths, ffmpeg_calls, audio_chunks, diarizer, diarization_result,
          i, all_text, all_segments, raw_segments, full_text, status,
          model_loaded, fmt_segments, fmt_pc, fmt_i, srt_content, vtt_content,
          loop_owner, requests, model_loads, pipeline_loads>>

\* The variables of the process serving several requests.
serverVars == <<loop_owner, requests, model_loads, pipeline_loads>>

\* The variables of format_srt and format_vtt.
formatVars == <<fmt_segments, fmt_pc, fmt_i, srt_content, vtt_content>>

\* The variables of the request outside split_audio_into_chunks.
handlerVars == <<asr_model, hf_token, cfg_include, response_format, diarize,
                 include_diarization_in_text, diarizer, diarization_result, i,
                 all_text, all_segments, raw_segments, full_text, status>>

None == "None"

\* ------------------------------------------------------------------ paths
UploadPath == <<"upload", 0>>
WavPath == <<"wav", 0>>
ChunkPath(k) == <<"chunk", k>>

Min(a, b) == IF a <= b THEN a ELSE b
Max(a, b) == IF a >= b THEN a ELSE b

\* ------------------------------------------------- split_audio_into_chunks
\* Mutant: "<" for "<=" in the comparison of line 33.
NoSplitNeeded_Strict(frames, cd) == frames < cd * FrameRate

\* duration <= chunk_duration, with duration = frames / rate
NoSplitNeeded(frames, cd) == frames <= cd * FrameRate

\* Mutant: the quotient rounded down instead of up.
NumChunks_Floor(frames, cd) == frames \div (cd * FrameRate)

\* math.ceil(duration / chunk_duration), for chunk_duration # 0: the
\* quotient is at most 0 when chunk_duration is negative.
NumChunks(frames, cd) ==
    IF cd > 0
    THEN (frames + cd * FrameRate - 1) \div (cd * FrameRate)
    ELSE 0 - (frames \div ((0 - cd) * FrameRate))

\* duration / chunk_duration raises ZeroDivisionError.
DivisionByZero(cd) == cd = 0

\* Mutant: the windows counted from 1.
StartTime_FromOne(k, cd) == (k + 1) * cd

\* start_time = i * chunk_duration, the -ss argument
StartTime(k, cd) == k * cd

\* What "ffmpeg -ss ss -i input -t t" extracts from an input of `frames`
\* frames: the frames from ss seconds on, at most t seconds of them.
ClipFrames(frames, ss, t) == Max(0, Min(t * FrameRate, frames - ss * FrameRate))

FfmpegCall(k, cd, rc) ==
    [ss |-> StartTime(k, cd), t |-> cd, out |-> ChunkPath(k), rc |-> rc,
     frames |-> IF rc = 0 THEN ClipFrames(duration, StartTime(k, cd), cd) ELSE 0]

\* except Exception: return [audio_path]
SplitFallback == <<WavPath>>

\* Lines 23-43: read the duration, return early or set up the loop.
\* wave.open raises when the file is not readable.
SplitStart ==
    /\ pc = "split"
    /\ UNCHANGED <<model_loaded, formatVars, serverVars>>
    /\ IF ~wav_readable
        THEN /\ audio_chunks' = SplitFallback
             /\ pc' = "diarizer_init"
             /\ UNCHANGED <<num_chunks, chunk_paths>>
        ELSE IF NoSplitNeeded(duration, chunk_duration)
        THEN /\ audio_chunks' = <<WavPath>>
             /\ pc' = "diarizer_init"
             /\ UNCHANGED <<num_chunks, chunk_paths>>
        ELSE IF DivisionByZero(chunk_duration)
        THEN /\ audio_chunks' = SplitFallback
             /\ pc' = "diarizer_init"
             /\ UNCHANGED <<num_chunks, chunk_paths>>
        ELSE /\ num_chunks' = NumChunks(duration, chunk_duration)
             /\ chunk_paths' = <<>>
             /\ pc' = "split_loop"
             /\ UNCHANGED audio_chunks
    /\ UNCHANGED <<chunk_duration, files, duration, wav_readable, ffmpeg_calls>>
    /\ UNCHANGED handlerVars

\* Lines 46-70, one iteration: ffmpeg writes chunk k or fails.  A failing
\* ffmpeg may or may not leave a partial output file behind.
SplitChunk ==
    /\ pc = "split_loop"
    /\ UNCHANGED <<model_loaded, formatVars, serverVars>>
    /\ Len(chunk_paths) < num_chunks
    /\ LET k == Len(chunk_paths) IN
       \/ /\ ffmpeg_calls' = Append(ffmpeg_calls, FfmpegCall(k, chunk_duration, 0))
          /\ files' = files \cup {ChunkPath(k)}
          /\ chunk_paths' = Append(chunk_paths, ChunkPath(k))
          /\ UNCHANGED <<pc, audio_chunks>>
       \/ /\ ffmpeg_calls' = Append(ffmpeg_calls, FfmpegCall(k, chunk_duration, 1))
          /\ \E partial \in BOOLEAN :
                files' = IF partial THEN files \cup {ChunkPath(k)} ELSE files
          /\ audio_chunks' = SplitFallback
          /\ pc' = "diarizer_init"
          /\ UNCHANGED chunk_paths
    /\ UNCHANGED <<chunk_duration, duration, wav_readable, num_chunks>>
    /\ UNCHANGED handlerVars

\* Line 72: range(num_chunks) is exhausted (at once when num_chunks is not
\* positive); return chunk_paths
SplitReturn ==
    /\ pc = "split_loop"
    /\ UNCHANGED <<model_loaded, formatVars, serverVars>>
    /\ Len(chunk_paths) >= num_chunks
    /\ audio_chunks' = chunk_paths
    /\ pc' = "diarizer_init"
    /\ UNCHANGED <<chunk_duration, files, duration, wav_readable, num_chunks,
                   chunk_paths, ffmpeg_calls>>
    /\ UNCHANGED handlerVars

\* ------------------------------------------------- transcribe_audio_chunk
\* Mutant: the speaker field defaulting to "unknown".
WhisperSegment_Unknown(id, start, end, text) ==
    [id |-> id, start |-> start, end |-> end, text |-> text, speaker |-> "unknown"]

\* WhisperSegment(id, start, end, text), speaker defaulting to None
WhisperSegment(id, start, end, text) ==
    [id |-> id, start |-> start, end |-> end, text |-> text, speaker |-> None]

\* " ".join(texts)
RECURSIVE Join(_)
Join(texts) ==
    IF Len(texts) = 0 THEN ""
    ELSE IF Len(texts) = 1 THEN texts[1]
    ELSE texts[1] \o " " \o Join(Tail(texts))

\* What model.transcribe does on one chunk: it raises, returns nothing,
\* returns a result with segment timestamps, or a result without them.
AsrOutcome(kind, text, words, stamps) ==
    [kind |-> kind, text |-> text, words |-> words, stamps |-> stamps]

\* The text of every segment the ASR returns.
SegmentText == "hi"

\* The lists of at most n timestamped segments, in order and without
\* overlap, that lie in [from, len].
RECURSIVE StampLists(_, _, _)
StampLists(from, len, n) ==
    IF n = 0 THEN {<<>>}
    ELSE {<<>>} \cup UNION { UNION {
            { <<[start |-> s, end |-> e, segment |-> SegmentText]>> \o rest :
                rest \in StampLists(e, len, n - 1) }
            : e \in s..len } : s \in from..len }

\* The outcomes of model.transcribe on a chunk of len frames, with at most
\* n timestamped segments.
AsrOutcomes(len, n) ==
    {AsrOutcome("raise", "", 0, <<>>), AsrOutcome("empty", "", 0, <<>>),
     AsrOutcome("plain", SegmentText, 1, <<>>)}
    \cup { AsrOutcome("stamps", Join([k \in 1..Len(st) |-> st[k].segment]), Len(st), st) :
            st \in StampLists(0, len, n) \ {<<>>} }

\* transcribe_audio_chunk: (text, segments) for an outcome of model.transcribe.
\* The estimate len(text.split()) / 2.0 seconds is rounded down to a frame.
TranscribeAudioChunk(r) ==
    IF r.kind \in {"raise", "empty"}
    THEN [text |-> "", segments |-> <<>>]
    ELSE IF r.kind = "stamps"
    THEN [text |-> r.text,
          segments |-> [k \in 1..Len(r.stamps) |->
              WhisperSegment(k - 1, r.stamps[k].start, r.stamps[k].end,
                             r.stamps[k].segment)]]
    ELSE [text |-> r.text,
          segments |-> <<WhisperSegment(0, 0, (r.words * FrameRate) \div 2, r.text)>>]

\* ------------------------------------------------------------ diarization
\* list.sort(key=...): a stable sort of <<key, value>> pairs by ascending
\* key.  Insert places x behind every element whose key is not larger.
RECURSIVE Insert(_, _)
Insert(sorted, x) ==
    IF Len(sorted) = 0 THEN <<x>>
    ELSE IF x[1] < sorted[1][1] THEN <<x>> \o sorted
    ELSE <<sorted[1]>> \o Insert(Tail(sorted), x)

RECURSIVE StableSort(_)
StableSort(pairs) ==
    IF Len(pairs) = 0 THEN <<>>
    ELSE Insert(StableSort(SubSeq(pairs, 1, Len(pairs) - 1)), pairs[Len(pairs)])

\* The speaker labels pyannote yields.
RawLabels == {"SPEAKER_00", "SPEAKER_01"}

\* speaker.startswith("SPEAKER_")
HasSpeakerPrefix(raw) == raw \in {"SPEAKER_00", "SPEAKER_01"}

\* Lines 92-100: speaker=f"speaker_{speaker_id}"
SpeakerLabel(raw) ==
    "speaker_" \o (IF ~HasSpeakerPrefix(raw) THEN "SPEAKER_" \o raw ELSE raw)

\* Mutant: the turns kept in the order the pipeline yields them.
DiarizeTracks_Unsorted(tracks) ==
    [k \in 1..Len(tracks) |->
        [start |-> tracks[k].start, end |-> tracks[k].end,
         speaker |-> SpeakerLabel(tracks[k].speaker)]]

\* Lines 89-110: convert the tracks to SpeakerSegments, sort them by start.
DiarizeTracks(tracks) ==
    LET segments == [k \in 1..Len(tracks) |->
                        [start |-> tracks[k].start, end |-> tracks[k].end,
                         speaker |-> SpeakerLabel(tracks[k].speaker)]]
        sorted == StableSort([k \in 1..Len(segments) |-> <<segments[k].start, segments[k]>>])
    IN [k \in 1..Len(sorted) |-> sorted[k][2]]

\* The track lists of at most n turns pyannote may yield, in any order, on
\* an audio file of len frames.
Turns(len) ==
    { t \in [start : 0..len, end : 0..len, speaker : RawLabels] : t.start < t.end }

RECURSIVE TrackLists(_, _)
TrackLists(len, n) ==
    IF n = 0 THEN {<<>>}
    ELSE {<<>>} \cup
         { <<t>> \o rest : t \in Turns(len), rest \in TrackLists(len, n - 1) }

\* Lines 141-149: the (speaker, duration) pairs of the turns that overlap
\* the segment, in the order of the turns.
RECURSIVE Overlapping(_, _, _)
Overlapping(start, end, turns) ==
    IF Len(turns) = 0 THEN <<>>
    ELSE LET spk == turns[1]
             overlap_start == Max(start, spk.start)
             overlap_end == Min(end, spk.end)
             rest == Overlapping(start, end, Tail(turns))
         IN IF overlap_end > overlap_start
            THEN <<[speaker |-> spk.speaker, duration |-> overlap_end - overlap_start]>> \o rest
            ELSE rest

\* Mutant: the sort without reverse=True.
SortOverlapping_Ascending(overlapping) ==
    LET sorted == StableSort([k \in 1..Len(overlapping) |->
                                <<overlapping[k].duration, overlapping[k]>>])
    IN [k \in 1..Len(sorted) |-> sorted[k][2]]

\* Line 154: overlapping.sort(key=lambda x: x[1], reverse=True).  A reverse
\* sort keeps the original order of equal keys: it is the stable sort by
\* descending duration.
SortOverlapping(overlapping) ==
    LET sorted == StableSort([k \in 1..Len(overlapping) |->
                                <<0 - overlapping[k].duration, overlapping[k]>>])
    IN [k \in 1..Len(sorted) |-> sorted[k][2]]

\* Lines 134-159: the speaker of one transcription segment.
DominantSpeaker(segment, turns) ==
    LET overlapping == Overlapping(segment.start, segment.end, turns)
    IN IF Len(overlapping) > 0
       THEN SortOverlapping(overlapping)[1].speaker
       ELSE "unknown"

\* Diarizer.merge_with_transcription
MergeWithTranscription(turns, segments) ==
    IF Len(turns) = 0 THEN segments
    ELSE [k \in 1..Len(segments) |->
            [segments[k] EXCEPT !.speaker = DominantSpeaker(segments[k], turns)]]

\* ------------------------------------------------ speaker labels in the text
\* Mutant: int() never raises.
ParseSpeakerNumber_NeverRaises(label) ==
    CASE label = "speaker_SPEAKER_00" -> 0
      [] label = "speaker_SPEAKER_01" -> 1
      [] OTHER -> 2

\* int(parts[-1]) of the label, or -1 when int() raises ValueError
ParseSpeakerNumber(label) ==
    CASE label = "speaker_SPEAKER_00" -> 0
      [] label = "speaker_SPEAKER_01" -> 1
      [] OTHER -> 0 - 1

\* speaker_label.startswith("speaker_")
StartsWithSpeaker(label) == label \notin {None, "unknown"}

\* api.py lines 179-207 from segment k on: the segments with their texts
\* prefixed, given previous_speaker and seen_speakers.
RECURSIVE PrefixFrom(_, _, _, _)
PrefixFrom(segments, k, previous_speaker, seen_speakers) ==
    IF k > Len(segments) THEN <<>>
    ELSE LET segment == segments[k]
             speaker_label == segment.speaker
             parsed == ParseSpeakerNumber(speaker_label)
             speaker_num == parsed + 1
         IN IF speaker_label = None \/ ~StartsWithSpeaker(speaker_label)
            THEN <<segment>> \o PrefixFrom(segments, k + 1, previous_speaker, seen_speakers)
            ELSE IF parsed >= 0
            THEN IF speaker_label # previous_speaker
                 THEN LET prefix == IF speaker_label \notin seen_speakers
                                    THEN "Speaker " \o ToString(speaker_num) \o ": "
                                    ELSE ToString(speaker_num) \o ": "
                      IN <<[segment EXCEPT !.text = prefix \o segment.text]>>
                         \o PrefixFrom(segments, k + 1, speaker_label,
                                       seen_speakers \cup {speaker_label})
                 ELSE <<segment>>
                      \o PrefixFrom(segments, k + 1, speaker_label, seen_speakers)
            ELSE IF "Speaker" # previous_speaker
                 THEN <<[segment EXCEPT !.text = "Speaker: " \o segment.text]>>
                      \o PrefixFrom(segments, k + 1, "Speaker", seen_speakers)
                 ELSE <<segment>>
                      \o PrefixFrom(segments, k + 1, previous_speaker, seen_speakers)

\* ---------------------------------------------------------------- api.py
SupportedFormats == {"json", "text", "srt", "vtt", "verbose_json"}

\* Mutant: the offset counts only the chunks that gave a text.
Offset_TranscribedOnly(idx, cd) ==
    Cardinality({j \in 1..Len(all_text) : all_text[j] # ""}) * cd

\* Mutant: the offset of the chunk number of the log line, i + 1.
Offset_FromOne(idx, cd) == (idx + 1) * cd

\* offset = i * chunk_duration
Offset(idx, cd) == idx * cd

\* Mutant: only the start is shifted.
ShiftSegment_StartOnly(segment, offset) ==
    [segment EXCEPT !.start = @ + offset * FrameRate]

\* segment.start += offset; segment.end += offset
ShiftSegment(segment, offset) ==
    [segment EXCEPT !.start = @ + offset * FrameRate, !.end = @ + offset * FrameRate]

\* The frames of an element of audio_chunks.
ChunkFrames(path) ==
    IF path = WavPath THEN duration
    ELSE LET c == CHOOSE c \in 1..Len(ffmpeg_calls) : ffmpeg_calls[c].out = path
         IN ffmpeg_calls[c].frames

splitVars == <<num_chunks, chunk_paths, ffmpeg_calls, audio_chunks>>
configVars == <<asr_model, hf_token, chunk_duration, cfg_include>>
requestVars == <<response_format, diarize, include_diarization_in_text>>
loopVars == <<i, all_text, all_segments, raw_segments, full_text>>

\* startup_event: load_model returns the model, or raises and the error is
\* swallowed.
Startup ==
    /\ pc = "boot"
    /\ model_loads' = model_loads + 1
    /\ UNCHANGED <<model_loaded, formatVars, loop_owner, requests, pipeline_loads>>
    /\ \E loaded \in BOOLEAN : asr_model' = loaded
    /\ pc' = "idle"
    /\ UNCHANGED <<hf_token, chunk_duration, cfg_include, files, duration,
                   wav_readable, diarizer, diarization_result, status>>
    /\ UNCHANGED <<splitVars, requestVars, loopVars>>

\* Mutant: the request is processed without the check of line 95.
Request_Unchecked(Formats, Diarizes, Includes) ==
    /\ pc = "idle"
    /\ UNCHANGED <<model_loaded, formatVars, serverVars>>
    /\ \E f \in Formats, d \in Diarizes, inc \in Includes :
        /\ response_format' = f
        /\ diarize' = d
        /\ include_diarization_in_text' = inc
    /\ status' = status /\ pc' = "upload"
    /\ UNCHANGED <<configVars, files, duration, wav_readable, diarizer,
                   diarization_result>>
    /\ UNCHANGED <<splitVars, loopVars>>

\* Lines 73-96: a request arrives; 503 when no model is loaded.
Request(Formats, Diarizes, Includes) ==
    /\ pc = "idle"
    /\ UNCHANGED <<model_loaded, formatVars, serverVars>>
    /\ \E f \in Formats, d \in Diarizes, inc \in Includes :
        /\ response_format' = f
        /\ diarize' = d
        /\ include_diarization_in_text' = inc
    /\ IF ~asr_model
       THEN status' = 503 /\ pc' = "done"
       ELSE status' = status /\ pc' = "upload"
    /\ UNCHANGED <<configVars, files, duration, wav_readable, diarizer,
                   diarization_result>>
    /\ UNCHANGED <<splitVars, loopVars>>

\* GET /health (lines 254-269), served once startup is over:
\* "model_loaded": asr_model is not None.
Health ==
    /\ pc # "boot"
    /\ model_loaded' = IF asr_model THEN "True" ELSE "False"
    /\ UNCHANGED <<configVars, pc, files, duration, wav_readable, diarizer,
                   diarization_result, status>>
    /\ UNCHANGED <<splitVars, requestVars, loopVars, formatVars, serverVars>>

\* Lines 103-109: the upload is written to a fresh file.
SaveUpload ==
    /\ pc = "upload"
    /\ UNCHANGED <<model_loaded, formatVars, serverVars>>
    /\ files' = files \cup {UploadPath}
    /\ pc' = "convert"
    /\ UNCHANGED <<configVars, duration, wav_readable, diarizer, diarization_result,
                   status>>
    /\ UNCHANGED <<splitVars, requestVars, loopVars>>

\* convert_audio_to_wav (audio.py lines 89-123) and its call: the output
\* file is created first; when ffmpeg fails it is removed and the exception
\* ends the request with 500.
ConvertAudio(Frames) ==
    /\ pc = "convert"
    /\ UNCHANGED <<model_loaded, formatVars, serverVars>>
    /\ \/ /\ files' = files \cup {WavPath}
          /\ duration' \in Frames
          /\ wav_readable' \in BOOLEAN
          /\ pc' = "split"
          /\ UNCHANGED status
       \/ /\ files' = (files \cup {WavPath}) \ {WavPath}
          /\ status' = 500
          /\ pc' = "done"
          /\ UNCHANGED <<duration, wav_readable>>
    /\ UNCHANGED <<configVars, diarizer, diarization_result>>
    /\ UNCHANGED <<splitVars, requestVars, loopVars>>

\* Lines 119-125 and Diarizer.__init__: a Diarizer is made when requested
\* and a token is there; its pipeline loads or stays None.
InitDiarizer ==
    /\ pc = "diarizer_init"
    /\ UNCHANGED <<model_loaded, formatVars, serverVars>>
    /\ IF diarize /\ hf_token
       THEN \E loaded \in BOOLEAN :
               diarizer' = IF loaded THEN "pipeline" ELSE "no_pipeline"
       ELSE diarizer' = None
    /\ pc' = "diarize"
    /\ UNCHANGED <<configVars, files, duration, wav_readable, diarization_result, status>>
    /\ UNCHANGED <<splitVars, requestVars, loopVars>>

\* Lines 128-132 and Diarizer.diarize: no turns without a pipeline or when
\* the pipeline raises, else the sorted turns.
RunDiarization(Tracks) ==
    /\ pc = "diarize"
    /\ UNCHANGED <<model_loaded, formatVars, serverVars>>
    /\ IF diarizer = None
       THEN diarization_result' = <<>>
       ELSE IF diarizer = "no_pipeline"
       THEN diarization_result' = << <<>> >>
       ELSE \/ diarization_result' = << <<>> >>
            \/ \E tracks \in Tracks :
                 diarization_result' = << DiarizeTracks(tracks) >>
    /\ pc' = "transcribe"
    /\ UNCHANGED <<configVars, files, duration, wav_readable, diarizer, status>>
    /\ UNCHANGED <<splitVars, requestVars, loopVars>>

\* Mutant: the chunks taken from the end of the list.
ChunkAt_Reversed(idx) == audio_chunks[Len(audio_chunks) - idx]

\* Line 138: chunk_path of enumerate(audio_chunks) at index idx
ChunkAt(idx) == audio_chunks[idx + 1]

\* Lines 138-157, one iteration of the chunk loop.
TranscribeChunk(Outcomes) ==
    /\ pc = "transcribe"
    /\ UNCHANGED <<model_loaded, formatVars, serverVars>>
    /\ i < Len(audio_chunks)
    /\ \E r \in Outcomes :
        LET chunk == TranscribeAudioChunk(r)
            offset == IF i > 0 THEN Offset(i, chunk_duration) ELSE 0
            chunk_segments ==
                IF i > 0
                THEN [k \in 1..Len(chunk.segments) |->
                        ShiftSegment(chunk.segments[k], offset)]
                ELSE chunk.segments
        IN /\ all_text' = Append(all_text, chunk.text)
           /\ all_segments' = all_segments \o chunk_segments
           /\ raw_segments' = Append(raw_segments,
                                     [offset |-> offset, segments |-> chunk.segments,
                                      kind |-> r.kind, path |-> ChunkAt(i)])
    /\ i' = i + 1
    /\ UNCHANGED <<configVars, pc, files, duration, wav_readable, diarizer,
                   diarization_result, full_text, status>>
    /\ UNCHANGED <<splitVars, requestVars>>

\* Mutant: the configured flag whatever the request says.
UseDiarizationInText_ConfigOnly == cfg_include

\* use_diarization_in_text: the request's flag, or the configured one
UseDiarizationInText ==
    IF include_diarization_in_text # None
    THEN include_diarization_in_text = "True"
    ELSE cfg_include

\* Lines 160-215: join the texts, label the segments, prefix their texts.
CombineResults ==
    /\ pc = "transcribe"
    /\ UNCHANGED <<model_loaded, formatVars, serverVars>>
    /\ i = Len(audio_chunks)
    /\ IF diarizer # None /\ diarization_result # <<>> /\ Len(diarization_result[1]) > 0
       THEN LET merged == MergeWithTranscription(diarization_result[1], all_segments)
            IN IF UseDiarizationInText
               THEN LET prefixed == PrefixFrom(merged, 1, None, {})
                    IN /\ all_segments' = prefixed
                       /\ full_text' = Join([k \in 1..Len(prefixed) |-> prefixed[k].text])
               ELSE /\ all_segments' = merged
                    /\ full_text' = Join(all_text)
       ELSE /\ full_text' = Join(all_text)
            /\ UNCHANGED all_segments
    /\ pc' = "cleanup"
    /\ UNCHANGED <<configVars, files, duration, wav_readable, diarizer,
                   diarization_result, i, all_text, raw_segments, status>>
    /\ UNCHANGED <<splitVars, requestVars>>

\* Lines 227-234: remove the upload, the WAV file and the chunks in
\* audio_chunks.
Cleanup ==
    /\ pc = "cleanup"
    /\ UNCHANGED <<model_loaded, formatVars, serverVars>>
    /\ files' = files \ ({UploadPath, WavPath}
                         \cup {audio_chunks[k] : k \in 1..Len(audio_chunks)})
    /\ pc' = "respond"
    /\ UNCHANGED <<configVars, duration, wav_readable, diarizer, diarization_result,
                   status>>
    /\ UNCHANGED <<splitVars, requestVars, loopVars>>

\* Lines 237-252: the response in the requested format.  The HTTPException
\* of line 248 is raised inside the try block, is an Exception, and is
\* replaced by the HTTPException of line 252.
Respond ==
    /\ pc = "respond"
    /\ UNCHANGED <<model_loaded, formatVars, serverVars>>
    /\ status' = IF response_format \in SupportedFormats THEN 200 ELSE 500
    /\ pc' = "done"
    /\ UNCHANGED <<configVars, files, duration, wav_readable, diarizer,
                   diarization_result>>
    /\ UNCHANGED <<splitVars, requestVars, loopVars>>

\* ------------------------------------------- format_srt and format_vtt
\* Strings are sequences of characters; a speaker label is one element of
\* the sequence.  Times are whole milliseconds, which {seconds:06.3f}
\* prints exactly.
Whitespace == {" ", "\n"}

\* str(n) of a natural number
RECURSIVE Decimal(_)
Decimal(n) ==
    IF n < 10 THEN <<ToString(n)>> ELSE Decimal(n \div 10) \o <<ToString(n % 10)>>

\* f"{n:02d}"
TwoDigits(n) == IF n < 10 THEN <<"0">> \o Decimal(n) ELSE Decimal(n)

\* f"{seconds:06.3f}" of a time below one minute, in milliseconds
SecondsField(ms) ==
    TwoDigits(ms \div 1000)
    \o <<".">>
    \o <<ToString((ms \div 100) % 10), ToString((ms \div 10) % 10), ToString(ms % 10)>>

\* str.replace(old, new) for characters old and new
ReplaceChar(str, old, new) ==
    [k \in 1..Len(str) |-> IF str[k] = old THEN new ELSE str[k]]

\* _format_timestamp(seconds, always_include_hours, decimal_marker)
FormatTimestamp(ms, always_include_hours, decimal_marker) ==
    LET hours == ms \div 3600000
        rest == ms % 3600000
        minutes == rest \div 60000
        seconds == rest % 60000
        hours_marker == IF always_include_hours \/ hours > 0
                        THEN Decimal(hours) \o <<":">> ELSE <<>>
        formatted == hours_marker \o TwoDigits(minutes) \o <<":">> \o SecondsField(seconds)
    IN IF decimal_marker = ","
       THEN ReplaceChar(formatted, ".", decimal_marker)
       ELSE formatted

\* str.strip()
RECURSIVE Strip(_)
Strip(str) ==
    IF Len(str) = 0 THEN str
    ELSE IF str[1] \in Whitespace THEN Strip(Tail(str))
    ELSE IF str[Len(str)] \in Whitespace THEN Strip(SubSeq(str, 1, Len(str) - 1))
    ELSE str

\* str.replace('-->', '->'): the occurrences are found from the left,
\* without overlap, and what a replacement produces is not looked at again.
RECURSIVE ReplaceArrow(_)
ReplaceArrow(str) ==
    IF Len(str) < 3 THEN str
    ELSE IF SubSeq(str, 1, 3) = <<"-", "-", ">">>
    THEN <<"-", ">">> \o ReplaceArrow(SubSeq(str, 4, Len(str)))
    ELSE <<str[1]>> \o ReplaceArrow(Tail(str))

\* Line 86: f"[{segment.speaker}] ", or "" without a speaker
SrtSpeakerPrefix(segment) ==
    IF segment.speaker # None THEN <<"[", segment.speaker, "]", " ">> ELSE <<>>

\* Line 108: f"<v {segment.speaker}>", or "" without a speaker
VttSpeakerPrefix(segment) ==
    IF segment.speaker # None THEN <<"<", "v", " ", segment.speaker, ">">> ELSE <<>>

Arrow == <<" ", "-", "-", ">", " ">>

\* Lines 80-87: what one iteration of format_srt adds for segments[idx + 1].
SrtBlock(idx, segment) ==
    LET segment_id == idx + 1
        start == FormatTimestamp(segment.start, TRUE, ",")
        end == FormatTimestamp(segment.end, TRUE, ",")
        text == ReplaceArrow(Strip(segment.text))
    IN Decimal(segment_id) \o <<"\n">> \o start \o Arrow \o end \o <<"\n">>
       \o SrtSpeakerPrefix(segment) \o text \o <<"\n", "\n">>

\* Lines 103-109: what one iteration of format_vtt adds.
VttBlock(idx, segment) ==
    LET start == FormatTimestamp(segment.start, TRUE, ".")
        end == FormatTimestamp(segment.end, TRUE, ".")
        text == Strip(segment.text)
    IN start \o Arrow \o end \o <<"\n">>
       \o VttSpeakerPrefix(segment) \o text \o <<"\n", "\n">>

\* Line 101
VttHeader == <<"W", "E", "B", "V", "T", "T", "\n", "\n">>

\* Everything but the variables of format_srt and format_vtt.
serviceVars == <<asr_model, hf_token, chunk_duration, cfg_include, pc, response_format,
                 diarize, include_diarization_in_text, files, duration, wav_readable,
                 num_chunks, chunk_paths, ffmpeg_calls, audio_chunks, diarizer,
                 diarization_result, i, all_text, all_segments, raw_segments, full_text,
                 status, model_loaded>>

\* format_srt, one iteration of the loop of line 79.
FormatSrtStep ==
    /\ fmt_pc = "srt"
    /\ fmt_i < Len(fmt_segments)
    /\ srt_content' = srt_content \o SrtBlock(fmt_i, fmt_segments[fmt_i + 1])
    /\ fmt_i' = fmt_i + 1
    /\ UNCHANGED <<fmt_segments, fmt_pc, vtt_content, serviceVars, serverVars>>

\* format_srt, line 89.
FormatSrtReturn ==
    /\ fmt_pc = "srt"
    /\ fmt_i = Len(fmt_segments)
    /\ srt_content' = Strip(srt_content)
    /\ fmt_pc' = "srt_done"
    /\ UNCHANGED <<fmt_segments, fmt_i, vtt_content, serviceVars, serverVars>>

\* format_vtt on the same segments, line 101.
FormatVttStart ==
    /\ fmt_pc = "srt_done"
    /\ vtt_content' = VttHeader
    /\ fmt_i' = 0
    /\ fmt_pc' = "vtt"
    /\ UNCHANGED <<fmt_segments, srt_content, serviceVars, serverVars>>

\* format_vtt, one iteration of the loop of line 102.
FormatVttStep ==
    /\ fmt_pc = "vtt"
    /\ fmt_i < Len(fmt_segments)
    /\ vtt_content' = vtt_content \o VttBlock(fmt_i, fmt_segments[fmt_i + 1])
    /\ fmt_i' = fmt_i + 1
    /\ UNCHANGED <<fmt_segments, fmt_pc, srt_content, serviceVars, serverVars>>

\* format_vtt, line 111.
FormatVttReturn ==
    /\ fmt_pc = "vtt"
    /\ fmt_i = Len(fmt_segments)
    /\ vtt_content' = Strip(vtt_content)
    /\ fmt_pc' = "vtt_done"
    /\ UNCHANGED <<fmt_segments, fmt_i, srt_content, serviceVars, serverVars>>

\* ------------------------------------------- the process and its requests
\* The handlers are coroutines on one event loop: a handler runs until it
\* awaits, and another one runs only then.  Positions of a handler: "new"
\* (not arrived), "read" (at the await of line 108), "convert", "split",
\* "diarizer", "transcribe" (in the loop of line 138), "in_model" (inside
\* model.transcribe, transcription.py line 131), "done".

\* Mutant: model.transcribe awaited as well.
Suspends_InModel(position) == position \in {"read", "in_model"}

\* The positions at which transcribe_audio awaits: content = await
\* file.read(), line 108, and no other.
Suspends(position) == position = "read"

\* Whether the event loop can run the handler of request r: it starts or
\* resumes a handler when no coroutine is running, and goes on with the
\* running one.
CanRun(r) ==
    IF requests[r].pc = "new" \/ Suspends(requests[r].pc)
    THEN loop_owner = 0
    ELSE loop_owner = r

\* The handler of request r runs up to position, with left chunks to go.
Move(r, position, left) ==
    /\ requests' = [requests EXCEPT ![r] = [pc |-> position, left |-> left]]
    /\ loop_owner' = IF Suspends(position) \/ position = "done" THEN 0 ELSE r

\* Lines 93-108: request r arrives; 503 without a model, else the upload
\* file is opened and the handler awaits file.read().
Arrive(r) ==
    /\ pc = "idle"
    /\ requests[r].pc = "new"
    /\ CanRun(r)
    /\ IF ~asr_model THEN Move(r, "done", 0) ELSE Move(r, "read", 0)
    /\ UNCHANGED <<serviceVars, formatVars, model_loads, pipeline_loads>>

\* Lines 108-109: the read is over, the content is written.
ResumeRead(r) ==
    /\ requests[r].pc = "read"
    /\ CanRun(r)
    /\ Move(r, "convert", 0)
    /\ UNCHANGED <<serviceVars, formatVars, model_loads, pipeline_loads>>

\* Line 112: convert_audio_to_wav returns or raises.
ServeConvert(r) ==
    /\ requests[r].pc = "convert"
    /\ CanRun(r)
    /\ \/ Move(r, "split", 0)
       \/ Move(r, "done", 0)
    /\ UNCHANGED <<serviceVars, formatVars, model_loads, pipeline_loads>>

\* Lines 115-116: split_audio_into_chunks returns the chunks.
ServeSplit(r) ==
    /\ requests[r].pc = "split"
    /\ CanRun(r)
    /\ \E n \in 1..MaxReqChunks : Move(r, "diarizer", n)
    /\ UNCHANGED <<serviceVars, formatVars, model_loads, pipeline_loads>>

\* Lines 119-131: with diarize and a token, Diarizer(access_token=hf_token)
\* is constructed, and its _initialize calls Pipeline.from_pretrained,
\* which returns a pipeline or raises; then the diarization runs.
ServeDiarizer(r) ==
    /\ requests[r].pc = "diarizer"
    /\ CanRun(r)
    /\ \E d \in BOOLEAN, loaded \in BOOLEAN :
        pipeline_loads' = IF d /\ hf_token /\ loaded
                          THEN pipeline_loads + 1 ELSE pipeline_loads
    /\ Move(r, "transcribe", requests[r].left)
    /\ UNCHANGED <<serviceVars, formatVars, model_loads>>

\* api.py line 142, transcription.py line 131: model.transcribe is called
\* on the next chunk.
TranscribeStart(r) ==
    /\ requests[r].pc = "transcribe"
    /\ requests[r].left > 0
    /\ CanRun(r)
    /\ Move(r, "in_model", requests[r].left)
    /\ UNCHANGED <<serviceVars, formatVars, model_loads, pipeline_loads>>

\* model.transcribe returns or raises; lines 150-157.
TranscribeReturn(r) ==
    /\ requests[r].pc = "in_model"
    /\ CanRun(r)
    /\ Move(r, "transcribe", requests[r].left - 1)
    /\ UNCHANGED <<serviceVars, formatVars, model_loads, pipeline_loads>>

\* Lines 160-252: the loop is over, the response is built and returned.
ServeRespond(r) ==
    /\ requests[r].pc = "transcribe"
    /\ requests[r].left = 0
    /\ CanRun(r)
    /\ Move(r, "done", 0)
    /\ UNCHANGED <<serviceVars, formatVars, model_loads, pipeline_loads>>

\* ------------------------------------------------------- specifications
\* The requests of the process, none of which has arrived.
NoServer ==
    /\ loop_owner = 0
    /\ requests = [r \in 1..MaxRequests |-> [pc |-> "new", left |-> 0]]
    /\ model_loads = 0
    /\ pipeline_loads = 0


\* The state of a request before anything of it was computed.
FreshSplit ==
    /\ num_chunks = 0
    /\ chunk_paths = <<>>
    /\ ffmpeg_calls = <<>>
    /\ audio_chunks = <<>>

FreshLoop ==
    /\ diarizer = None
    /\ diarization_result = <<>>
    /\ i = 0
    /\ all_text = <<>>
    /\ all_segments = <<>>
    /\ raw_segments = <<>>
    /\ full_text = ""
    /\ status = 0
    /\ model_loaded = None
    /\ fmt_segments = <<>>
    /\ fmt_pc = "off"
    /\ fmt_i = 0
    /\ srt_content = <<>>
    /\ vtt_content = <<>>
    /\ NoServer

AllFormats == SupportedFormats \cup {"xml"}
IncludeFlags == {None, "True", "False"}

\* The service from create_app on: startup, then one request.
Init ==
    /\ asr_model = FALSE
    /\ hf_token \in BOOLEAN
    /\ chunk_duration \in 1..MaxChunkDuration
    /\ cfg_include \in BOOLEAN
    /\ pc = "boot"
    /\ response_format = "json"
    /\ diarize = TRUE
    /\ include_diarization_in_text = None
    /\ files = {}
    /\ duration = 0
    /\ wav_readable = TRUE
    /\ FreshSplit
    /\ FreshLoop

Stamp(s, e) == [start |-> s, end |-> e, segment |-> SegmentText]

\* Whole requests: pyannote yields no turn, one turn over the whole file, or
\* two turns of two speakers that meet at some frame (the later one first).
HandlerTracks(len) ==
    {<<>>}
    \cup {<<[start |-> 0, end |-> len, speaker |-> l]>> : l \in {x \in RawLabels : len > 0}}
    \cup {<<[start |-> h, end |-> len, speaker |-> "SPEAKER_01"],
            [start |-> 0, end |-> h, speaker |-> "SPEAKER_00"]>> : h \in 1..(len - 1)}

\* Whole requests: model.transcribe raises, returns nothing, returns a text
\* without timestamps, or one timestamped segment over the whole chunk.
HandlerOutcomes(len) ==
    {AsrOutcome("raise", "", 0, <<>>), AsrOutcome("empty", "", 0, <<>>),
     AsrOutcome("plain", SegmentText, 1, <<>>),
     AsrOutcome("stamps", SegmentText, 1, <<Stamp(0, len)>>)}

Next ==
    \/ Startup
    \/ Request(AllFormats, BOOLEAN, IncludeFlags)
    \/ SaveUpload
    \/ ConvertAudio(0..HandlerFrames)
    \/ SplitStart
    \/ SplitChunk
    \/ SplitReturn
    \/ InitDiarizer
    \/ RunDiarization(HandlerTracks(duration))
    \/ TranscribeChunk(HandlerOutcomes(ChunkFrames(ChunkAt(i))))
    \/ CombineResults
    \/ Cleanup
    \/ Respond
    \/ Health

Spec == Init /\ [][Next]_vars

\* split_audio_into_chunks called by a request on its converted WAV file,
\* of any duration, under any configured chunk duration.
InitSplit ==
    /\ asr_model = TRUE
    /\ hf_token = FALSE
    /\ chunk_duration \in 1..MaxChunkDuration
    /\ cfg_include = TRUE
    /\ pc = "split"
    /\ response_format = "json"
    /\ diarize = FALSE
    /\ include_diarization_in_text = None
    /\ files = {UploadPath, WavPath}
    /\ duration \in 0..MaxFrames
    /\ wav_readable \in BOOLEAN
    /\ FreshSplit
    /\ FreshLoop

NextSplit == SplitStart \/ SplitChunk \/ SplitReturn

SpecSplit == InitSplit /\ [][NextSplit]_vars

\* split_audio_into_chunks for every CHUNK_DURATION the configuration
\* accepts: int(os.environ.get("CHUNK_DURATION", ...)) is not validated, so
\* zero and a negative number stand next to the positive ones.
ChunkDurations == {-1, 0} \cup (1..MaxChunkDuration)

InitSplitAny ==
    /\ asr_model = TRUE
    /\ hf_token = FALSE
    /\ chunk_duration \in ChunkDurations
    /\ cfg_include = TRUE
    /\ pc = "split"
    /\ response_format = "json"
    /\ diarize = FALSE
    /\ include_diarization_in_text = None
    /\ files = {UploadPath, WavPath}
    /\ duration \in 0..MaxFrames
    /\ wav_readable \in BOOLEAN
    /\ FreshSplit
    /\ FreshLoop

SpecSplitAny == InitSplitAny /\ [][NextSplit]_vars

\* The chunk loop: a request without diarization from the call of
\* split_audio_into_chunks on, for the audio files of at most MaxChunks
\* chunks.  Besides the ordered timestamps inside the chunk (any list of at
\* most MaxSegs, and every two adjacent segments that cover the chunk), the
\* ASR may return timestamps past the end of the chunk or out of order.
InitChunks ==
    /\ asr_model = TRUE
    /\ hf_token = FALSE
    /\ chunk_duration \in 1..MaxChunkDuration
    /\ cfg_include = TRUE
    /\ pc = "split"
    /\ response_format = "json"
    /\ diarize = FALSE
    /\ include_diarization_in_text = None
    /\ files = {UploadPath, WavPath}
    /\ duration \in {d \in 0..MaxFrames : NumChunks(d, chunk_duration) <= MaxChunks}
    /\ wav_readable = TRUE
    /\ FreshSplit
    /\ FreshLoop

TwoStamps(a, b) == AsrOutcome("stamps", SegmentText \o " " \o SegmentText, 2, <<a, b>>)

ChunkOutcomes(len) ==
    AsrOutcomes(len, MaxSegs)
    \cup {TwoStamps(Stamp(0, h), Stamp(h, len)) : h \in 0..len}
    \cup {AsrOutcome("stamps", SegmentText, 1, <<Stamp(len, len + 1)>>),
          TwoStamps(Stamp(len, len), Stamp(0, 0))}

NextChunks ==
    \/ SplitStart
    \/ SplitChunk
    \/ SplitReturn
    \/ InitDiarizer
    \/ RunDiarization(HandlerTracks(duration))
    \/ TranscribeChunk(ChunkOutcomes(ChunkFrames(ChunkAt(i))))
    \/ CombineResults

SpecChunks == InitChunks /\ [][NextChunks]_vars

\* Speaker alignment: a request with diarization on an audio file of one
\* chunk, from the construction of the Diarizer on.
InitMerge ==
    /\ asr_model = TRUE
    /\ hf_token = TRUE
    /\ chunk_duration = MergeFrames
    /\ cfg_include = FALSE
    /\ pc = "diarizer_init"
    /\ response_format = "json"
    /\ diarize = TRUE
    /\ include_diarization_in_text = None
    /\ files = {UploadPath, WavPath}
    /\ duration = MergeFrames
    /\ wav_readable = TRUE
    /\ num_chunks = 0
    /\ chunk_paths = <<>>
    /\ ffmpeg_calls = <<>>
    /\ audio_chunks = <<WavPath>>
    /\ FreshLoop

MergeTracks(len) == TrackLists(len, MaxTurns)
MergeOutcomes(len) == AsrOutcomes(len, MergeSegs)

NextMerge ==
    \/ InitDiarizer
    \/ RunDiarization(MergeTracks(duration))
    \/ TranscribeChunk(MergeOutcomes(ChunkFrames(ChunkAt(i))))
    \/ CombineResults

SpecMerge == InitMerge /\ [][NextMerge]_vars

\* Speaker labels in the text: a request with diarization on an audio file
\* of one chunk of TextFrames seconds, from the construction of the Diarizer
\* on, under every request flag and configured flag.  The ASR returns one
\* segment per second, each with its own text; pyannote yields, for every
\* second, silence or one turn of a speaker, under labels that end in a
\* number and labels that do not.
TextLabels == RawLabels \cup {"A", "B"}

Word(j) ==
    IF j <= 4 THEN <<"hi", "there", "ok", "bye">>[j] ELSE "w" \o ToString(j)

TextTracks(len) ==
    { LET Spoken(t) == t.speaker # "silence"
      IN SelectSeq([j \in 1..len |-> [start |-> (j - 1) * FrameRate,
                                      end |-> j * FrameRate, speaker |-> f[j]]],
                   Spoken)
      : f \in [1..len -> TextLabels \cup {"silence"}] }

TextOutcomes(len) ==
    {AsrOutcome("raise", "", 0, <<>>),
     AsrOutcome("plain", SegmentText, 1, <<>>),
     AsrOutcome("stamps", Join([j \in 1..len |-> Word(j)]), len,
                [j \in 1..len |-> [start |-> (j - 1) * FrameRate,
                                   end |-> j * FrameRate, segment |-> Word(j)]])}

InitText ==
    /\ asr_model = TRUE
    /\ hf_token = TRUE
    /\ chunk_duration = TextFrames
    /\ cfg_include \in BOOLEAN
    /\ pc = "diarizer_init"
    /\ response_format = "json"
    /\ diarize = TRUE
    /\ include_diarization_in_text \in IncludeFlags
    /\ files = {UploadPath, WavPath}
    /\ duration = TextFrames * FrameRate
    /\ wav_readable = TRUE
    /\ num_chunks = 0
    /\ chunk_paths = <<>>
    /\ ffmpeg_calls = <<>>
    /\ audio_chunks = <<WavPath>>
    /\ FreshLoop

NextText ==
    \/ InitDiarizer
    \/ RunDiarization(TextTracks(duration \div FrameRate))
    \/ TranscribeChunk(TextOutcomes(ChunkFrames(ChunkAt(i)) \div FrameRate))
    \/ CombineResults

SpecText == InitText /\ [][NextText]_vars

\* format_srt and format_vtt as functions of their argument: every list of
\* at most MaxFmtSegs segments that follow one another on a ladder of times
\* (below and above one minute, one hour and ten hours), with or without a
\* speaker each, all with one text of at most MaxTextLen characters.
Alphabet == {"-", ">", "a", " "}

RECURSIVE Texts(_)
Texts(n) ==
    IF n = 0 THEN {<<>>}
    ELSE {<<>>} \cup { <<c>> \o t : c \in Alphabet, t \in Texts(n - 1) }

\* Milliseconds.
FormatTime(k) ==
    CASE k = 1 -> 0
      [] k = 2 -> 1500
      [] k = 3 -> 3661001
      [] OTHER -> 36000000 * (k - 3) + 59999

FormatInputs ==
    UNION { { [k \in 1..n |-> [id |-> k - 1, start |-> FormatTime(k),
                               end |-> FormatTime(k + 1), text |-> t,
                               speaker |-> spk[k]]]
              : t \in Texts(MaxTextLen), spk \in [1..n -> {None, "speaker_SPEAKER_00"}] }
            : n \in 0..MaxFmtSegs }

InitFormat ==
    /\ asr_model = TRUE
    /\ hf_token = FALSE
    /\ chunk_duration = 1
    /\ cfg_include = TRUE
    /\ pc = "respond"
    /\ response_format = "srt"
    /\ diarize = FALSE
    /\ include_diarization_in_text = None
    /\ files = {}
    /\ duration = 0
    /\ wav_readable = TRUE
    /\ FreshSplit
    /\ diarizer = None
    /\ diarization_result = <<>>
    /\ i = 0
    /\ all_text = <<>>
    /\ all_segments = <<>>
    /\ raw_segments = <<>>
    /\ full_text = ""
    /\ status = 0
    /\ model_loaded = None
    /\ fmt_segments \in FormatInputs
    /\ fmt_pc = "srt"
    /\ fmt_i = 0
    /\ srt_content = <<>>
    /\ vtt_content = <<>>
    /\ NoServer

NextFormat ==
    \/ FormatSrtStep
    \/ FormatSrtReturn
    \/ FormatVttStart
    \/ FormatVttStep
    \/ FormatVttReturn

SpecFormat == InitFormat /\ [][NextFormat]_vars

\* One process from create_app on: startup, then MaxRequests requests that
\* arrive at any time, each of at most MaxReqChunks chunks.
InitServer ==
    /\ asr_model = FALSE
    /\ hf_token \in BOOLEAN
    /\ chunk_duration = 1
    /\ cfg_include = TRUE
    /\ pc = "boot"
    /\ response_format = "json"
    /\ diarize = TRUE
    /\ include_diarization_in_text = None
    /\ files = {}
    /\ duration = 0
    /\ wav_readable = TRUE
    /\ FreshSplit
    /\ FreshLoop

NextServer ==
    \/ Startup
    \/ \E r \in 1..MaxRequests :
        \/ Arrive(r)
        \/ ResumeRead(r)
        \/ ServeConvert(r)
        \/ ServeSplit(r)
        \/ ServeDiarizer(r)
        \/ TranscribeStart(r)
        \/ TranscribeReturn(r)
        \/ ServeRespond(r)

SpecServer == InitServer /\ [][NextServer]_vars

\* ------------------------------------------------------------------ claims
\* Whether split_audio_into_chunks has returned to the request handler.
SplitReturned == audio_chunks # <<>>

\* Whether some ffmpeg call of split_audio_into_chunks ended non-zero.
ToolFailed == \E c \in 1..Len(ffmpeg_calls) : ffmpeg_calls[c].rc # 0

\* The least n with n * c >= d: ceil(d / c) for c > 0, d >= 0.
CeilDiv(d, c) == CHOOSE n \in 0..d : n * c >= d /\ (n = 0 \/ (n - 1) * c < d)

\* C1 (SpecSplit): when ffmpeg ends non-zero on some window, the split does
\* not return a chunk list to its caller (the error propagates instead).
C1_SplitFailurePropagates == ToolFailed => ~SplitReturned

\* C2 (Spec): a request whose processing succeeds and whose response_format
\* is not one of the five supported formats ends with status 400.
C2_UnsupportedFormatIs400 ==
    (pc = "done" /\ asr_model /\ SplitReturned /\ response_format \notin SupportedFormats)
        => status = 400

\* C3 (Spec): when the request has ended, none of its temporary files (the
\* upload, the converted WAV file, the chunk files) exists.
C3_NoTemporaryFileLeft == pc = "done" => files = {}

\* C4 (SpecSplit): when the duration is at most the chunk duration, ffmpeg
\* is never invoked and the split returns exactly the input path.
C4_ShortAudioNotSplit ==
    duration <= chunk_duration * FrameRate
        => /\ ffmpeg_calls = <<>>
           /\ pc # "split_loop"
           /\ SplitReturned => audio_chunks = <<WavPath>>

C4_Witness ==
    /\ SplitReturned
    /\ duration = chunk_duration * FrameRate
    /\ wav_readable
    /\ audio_chunks = <<WavPath>>

\* C5 (SpecSplit): for a readable file longer than the chunk duration and
\* ffmpeg succeeding, the split returns n = ceil(D / C) chunks, ffmpeg was
\* invoked n times, the k-th call (from 0) with start time k * C writing the
\* k-th chunk returned, and the last chunk holds D - (n - 1) * C.
C5_LongAudioSplit ==
    (SplitReturned /\ wav_readable /\ ~ToolFailed
        /\ duration > chunk_duration * FrameRate)
    => LET n == CeilDiv(duration, chunk_duration * FrameRate)
       IN /\ Len(audio_chunks) = n
          /\ Len(ffmpeg_calls) = n
          /\ \A k \in 0..(n - 1) :
                /\ ffmpeg_calls[k + 1].ss = k * chunk_duration
                /\ ffmpeg_calls[k + 1].out = audio_chunks[k + 1]
                /\ \A m \in 0..(k - 1) : audio_chunks[m + 1] # audio_chunks[k + 1]
          /\ ffmpeg_calls[n].frames = duration - (n - 1) * chunk_duration * FrameRate

C5_Witness ==
    /\ SplitReturned
    /\ duration = 7
    /\ chunk_duration * FrameRate = 3
    /\ Len(audio_chunks) = 3
    /\ ffmpeg_calls[3].frames = 1

\* The frames of the WAV file that the k-th element of audio_chunks holds
\* start at this frame.
SourceStart(k) ==
    IF audio_chunks[k] = WavPath THEN 0
    ELSE LET c == CHOOSE c \in 1..Len(ffmpeg_calls) : ffmpeg_calls[c].out = audio_chunks[k]
         IN ffmpeg_calls[c].ss * FrameRate

\* The elements of audio_chunks that hold frame t of the WAV file.
Covering(t) ==
    {k \in 1..Len(audio_chunks) :
        SourceStart(k) <= t /\ t < SourceStart(k) + ChunkFrames(audio_chunks[k])}

\* C6 (SpecChunks): every frame of [0, D) lies in exactly one of the chunks
\* handed to the chunk loop, no chunk holds anything past D, and the offset
\* the loop adds to the times of a chunk is the place of that chunk in the
\* file; when the file was read and ffmpeg succeeded, chunk k holds the
\* window [k*C, min((k+1)*C, D)).
C6_ChunksPartitionAudio ==
    SplitReturned =>
        /\ \A t \in 0..(duration - 1) : Cardinality(Covering(t)) = 1
        /\ \A k \in 1..Len(audio_chunks) :
            SourceStart(k) + ChunkFrames(audio_chunks[k]) <= duration
        /\ \A k \in 1..Len(raw_segments) :
            raw_segments[k].offset * FrameRate = SourceStart(k)
        /\ (wav_readable /\ ~ToolFailed) =>
            \A k \in 1..Len(audio_chunks) :
                /\ SourceStart(k) = (k - 1) * chunk_duration * FrameRate
                /\ SourceStart(k) + ChunkFrames(audio_chunks[k])
                     = Min(k * chunk_duration * FrameRate, duration)

C6_Witness ==
    /\ pc = "cleanup"
    /\ duration = 7
    /\ chunk_duration * FrameRate = 3
    /\ Len(raw_segments) = 3
    /\ raw_segments[3].offset = 6
    /\ ChunkFrames(audio_chunks[3]) = 1

\* The number of segments that the chunks before chunk j (from 1) returned.
RECURSIVE SegmentsBefore(_)
SegmentsBefore(j) ==
    IF j <= 1 THEN 0
    ELSE SegmentsBefore(j - 1) + Len(raw_segments[j - 1].segments)

\* C7 (SpecChunks): the file-level list holds the segments of the chunks in
\* chunk order, the k-th segment of chunk j (from 0) with its start and end
\* as transcribe_audio_chunk returned them plus j * chunk_duration.
C7_OffsetReconciliation ==
    pc \in {"transcribe", "cleanup"} =>
        /\ Len(raw_segments) = i
        /\ Len(all_segments) = SegmentsBefore(i + 1)
        /\ \A j \in 1..Len(raw_segments) :
            \A k \in 1..Len(raw_segments[j].segments) :
                LET raw == raw_segments[j].segments[k]
                    seg == all_segments[SegmentsBefore(j) + k]
                IN /\ seg.start = raw.start + (j - 1) * chunk_duration * FrameRate
                   /\ seg.end = raw.end + (j - 1) * chunk_duration * FrameRate
                   /\ seg.id = raw.id
                   /\ seg.text = raw.text

C7_Witness ==
    /\ pc = "cleanup"
    /\ chunk_duration * FrameRate = 3
    /\ Len(raw_segments) = 3
    /\ Len(raw_segments[1].segments) = 2
    /\ Len(raw_segments[3].segments) = 1
    /\ raw_segments[3].segments[1].start = 0
    /\ raw_segments[3].segments[1].end = 1
    /\ all_segments[Len(all_segments)].start = 6
    /\ all_segments[Len(all_segments)].end = 7

\* Whether the segments chunk j (from 1) returned are ordered, do not
\* overlap and lie in the chunk.
ChunkSegmentsInOrder(j) ==
    LET segs == raw_segments[j].segments
    IN /\ \A k \in 1..Len(segs) :
            /\ 0 <= segs[k].start
            /\ segs[k].start <= segs[k].end
            /\ segs[k].end <= ChunkFrames(audio_chunks[j])
       /\ \A k \in 1..(Len(segs) - 1) : segs[k].end <= segs[k + 1].start

\* C8 (SpecChunks): when the segments of every chunk are ordered and lie in
\* the chunk, the file-level list is ordered by start and every segment of
\* it starts no later than it ends.
C8_SegmentsMonotone ==
    (pc \in {"transcribe", "cleanup"}
        /\ \A j \in 1..Len(raw_segments) : ChunkSegmentsInOrder(j))
    => /\ \A k \in 1..Len(all_segments) : all_segments[k].start <= all_segments[k].end
       /\ \A k \in 1..(Len(all_segments) - 1) :
            all_segments[k].start <= all_segments[k + 1].start

C8_Witness ==
    /\ pc = "cleanup"
    /\ Len(audio_chunks) = 3
    /\ \A j \in 1..Len(raw_segments) :
        ChunkSegmentsInOrder(j) /\ Len(raw_segments[j].segments) = 2
    /\ all_segments[2].end = chunk_duration * FrameRate
    /\ all_segments[3].start = chunk_duration * FrameRate

\* The overlap of a transcript segment and a turn.
OverlapOf(s, t) == Max(0, Min(s.end, t.end) - Max(s.start, t.start))

\* The turns of the diarization that overlap the segment the most.
MostOverlapping(s, turns) ==
    {t \in 1..Len(turns) :
        \A u \in 1..Len(turns) : OverlapOf(s, turns[u]) <= OverlapOf(s, turns[t])}

\* Whether CombineResults labelled the segments from a non-empty turn list.
Merged ==
    /\ pc = "cleanup"
    /\ diarization_result # <<>>
    /\ Len(diarization_result[1]) > 0

\* C9 (SpecMerge): after the merge with a non-empty turn list every segment
\* has a speaker: "unknown" when no turn overlaps it, else the speaker of a
\* turn that overlaps it the most.
C9_DominantSpeaker ==
    Merged =>
        \A k \in 1..Len(all_segments) :
            LET s == all_segments[k]
                turns == diarization_result[1]
            IN /\ s.speaker # None
               /\ IF \A t \in 1..Len(turns) : OverlapOf(s, turns[t]) = 0
                  THEN s.speaker = "unknown"
                  ELSE \E t \in MostOverlapping(s, turns) : s.speaker = turns[t].speaker

C9_Witness ==
    /\ Merged
    /\ Len(all_segments) = 1
    /\ all_segments[1].start = 1 /\ all_segments[1].end = 4
    /\ diarization_result[1] =
        <<[start |-> 0, end |-> 2, speaker |-> "speaker_SPEAKER_00"],
          [start |-> 2, end |-> 4, speaker |-> "speaker_SPEAKER_01"]>>
    /\ all_segments[1].speaker = "speaker_SPEAKER_01"

\* C10 (SpecMerge): when several turns overlap a segment the most, the
\* segment has the speaker of one of them that starts the earliest.
C10_TieBreakEarliestStart ==
    Merged =>
        \A k \in 1..Len(all_segments) :
            LET s == all_segments[k]
                turns == diarization_result[1]
                best == MostOverlapping(s, turns)
            IN (Cardinality(best) >= 2 /\ \E t \in best : OverlapOf(s, turns[t]) > 0)
                => \E t \in best :
                    /\ \A u \in best : turns[t].start <= turns[u].start
                    /\ s.speaker = turns[t].speaker

C10_Witness ==
    /\ Merged
    /\ Len(all_segments) = 1
    /\ all_segments[1].start = 1 /\ all_segments[1].end = 3
    /\ diarization_result[1] =
        <<[start |-> 0, end |-> 2, speaker |-> "speaker_SPEAKER_01"],
          [start |-> 2, end |-> 4, speaker |-> "speaker_SPEAKER_00"]>>
    /\ all_segments[1].speaker = "speaker_SPEAKER_01"

\* Whether the request has passed lines 160-215 (its results are combined).
Combined == pc \in {"cleanup", "respond", "done"} /\ audio_chunks # <<>>

\* Whether the diarization of the request yielded no turn: no Diarizer, no
\* pipeline, an exception of the pipeline, or no speech.
ZeroTurns == diarization_result = <<>> \/ Len(diarization_result[1]) = 0

\* C11: when diarization yields zero turns, the request still succeeds and
\* the transcript segments are returned unchanged: every segment is the one
\* the chunk loop produced, none has a speaker label (not even "unknown"),
\* no text is altered, and the flat text is the chunks' texts joined.
C11_ZeroTurnsLeaveSegments ==
    (Combined /\ ZeroTurns) =>
        /\ Len(all_segments) = SegmentsBefore(Len(raw_segments) + 1)
        /\ \A j \in 1..Len(raw_segments) :
            \A k \in 1..Len(raw_segments[j].segments) :
                LET raw == raw_segments[j].segments[k]
                    seg == all_segments[SegmentsBefore(j) + k]
                IN /\ seg.speaker = None
                   /\ seg.text = raw.text
                   /\ seg.start = raw.start + raw_segments[j].offset * FrameRate
                   /\ seg.end = raw.end + raw_segments[j].offset * FrameRate
        /\ full_text = Join(all_text)
        /\ (pc = "done" /\ response_format \in SupportedFormats) => status = 200

\* A request with a loaded pipeline that found no speech, the labels asked
\* for in the text, ended with 200 and two unlabelled segments.
C11_Witness ==
    /\ pc = "done"
    /\ status = 200
    /\ diarizer = "pipeline"
    /\ diarization_result = << <<>> >>
    /\ UseDiarizationInText
    /\ Len(all_segments) = 2
    /\ \A k \in 1..2 : all_segments[k].speaker = None /\ all_segments[k].text = SegmentText

\* The segment of the chunk loop that became all_segments[n], as
\* transcribe_audio_chunk returned it.
RawSegmentAt(n) ==
    LET j == CHOOSE c \in 1..Len(raw_segments) :
                /\ SegmentsBefore(c) < n
                /\ n <= SegmentsBefore(c) + Len(raw_segments[c].segments)
    IN raw_segments[j].segments[n - SegmentsBefore(j)]

\* The effective include_diarization_in_text: the request's when it is
\* given, else the configured one.
EffectiveFlag ==
    IF include_diarization_in_text = None THEN cfg_include
    ELSE include_diarization_in_text = "True"

\* Whether the request has embedded the speaker labels in the text.
Prefixed == Combined /\ ~ZeroTurns /\ EffectiveFlag

\* Labels that end in a number, and the number.
Numbered(label) == label \in {"speaker_SPEAKER_00", "speaker_SPEAKER_01"}
NumberOf(label) == IF label = "speaker_SPEAKER_00" THEN 0 ELSE 1

\* Labels of a speaker that do not end in a number.
Unparseable(label) == label \notin {None, "unknown"} /\ ~Numbered(label)

\* The prefix the rule gives segment k of a numbered speaker: none when the
\* segment before it has the same speaker, "Speaker N: " at the speaker's
\* first appearance, "N: " later.
ExpectedPrefix(k) ==
    LET label == all_segments[k].speaker
        N == ToString(NumberOf(label) + 1)
    IN IF k > 1 /\ all_segments[k - 1].speaker = label THEN ""
       ELSE IF \E j \in 1..(k - 1) : all_segments[j].speaker = label
       THEN N \o ": "
       ELSE "Speaker " \o N \o ": "

\* C12: in a segment list whose labels are numbered or "unknown", a segment
\* of a numbered speaker gets a prefix exactly when its speaker differs from
\* the speaker of the segment right before it: "Speaker N: " the first time
\* the speaker appears, "N: " on later changes back, N the label's number
\* plus one; speakers [A, A, B, A] with texts [hi, there, ok, bye] render as
\* "Speaker 1: hi there Speaker 2: ok 1: bye".
C12_PrefixOnSpeakerChange ==
    (Prefixed /\ \A k \in 1..Len(all_segments) :
                    all_segments[k].speaker = "unknown" \/ Numbered(all_segments[k].speaker))
    => /\ \A k \in 1..Len(all_segments) :
            Numbered(all_segments[k].speaker)
                => all_segments[k].text = ExpectedPrefix(k) \o RawSegmentAt(k).text
       /\ ( /\ Len(all_segments) = 4
            /\ [k \in 1..4 |-> all_segments[k].speaker] =
                   <<"speaker_SPEAKER_00", "speaker_SPEAKER_00",
                     "speaker_SPEAKER_01", "speaker_SPEAKER_00">>
            /\ [k \in 1..4 |-> RawSegmentAt(k).text] = <<"hi", "there", "ok", "bye">> )
          => full_text = "Speaker 1: hi there Speaker 2: ok 1: bye"

TextChanged(k) == all_segments[k].text # RawSegmentAt(k).text

\* Whether all_segments[k] has the label of a speaker.
Labelled(k) == all_segments[k].speaker \notin {None, "unknown"}

\* C18: speaker labels are embedded in the text exactly when diarization
\* produced at least one turn and the effective flag is true, the effective
\* flag being the request's include_diarization_in_text when given and the
\* configured one otherwise: no text changes without both; with both, the
\* first segment of a speaker is prefixed and the flat text is the segments'
\* texts joined; with turns and the flag false, every segment has a speaker
\* label and no text is changed.
C18_LabelsInTextIffFlag ==
    Combined =>
        /\ (\E k \in 1..Len(all_segments) : TextChanged(k))
                => (~ZeroTurns /\ EffectiveFlag)
        /\ (~ZeroTurns /\ EffectiveFlag) =>
            /\ full_text = Join([k \in 1..Len(all_segments) |-> all_segments[k].text])
            /\ \A k \in 1..Len(all_segments) :
                 (Labelled(k) /\ \A j \in 1..(k - 1) : ~Labelled(j)) => TextChanged(k)
        /\ (~ZeroTurns /\ ~EffectiveFlag) =>
            /\ full_text = Join(all_text)
            /\ \A k \in 1..Len(all_segments) :
                 all_segments[k].speaker # None /\ ~TextChanged(k)

\* The request's flag true over a configured false: the labels are in the
\* text.
C18_Witness ==
    /\ Combined
    /\ include_diarization_in_text = "True"
    /\ ~cfg_include
    /\ Len(all_segments) = 4
    /\ full_text = "Speaker 1: hi there Speaker 2: ok 1: bye"

\* HH:MM:SS<marker>mmm: hours, minutes and seconds of two digits each,
\* milliseconds of three.
ClockTime(ms, marker) ==
    TwoDigits(ms \div 3600000) \o <<":">> \o TwoDigits((ms % 3600000) \div 60000)
    \o <<":">> \o TwoDigits((ms % 60000) \div 1000) \o <<marker>>
    \o <<ToString((ms \div 100) % 10), ToString((ms \div 10) % 10), ToString(ms % 10)>>

\* The blocks, each followed by one blank line.
RECURSIVE Blocks(_)
Blocks(blocks) ==
    IF Len(blocks) = 0 THEN <<>>
    ELSE blocks[1] \o <<"\n", "\n">> \o Blocks(Tail(blocks))

\* Whether format_srt, format_vtt has returned.
SrtReturned == fmt_pc \in {"srt_done", "vtt", "vtt_done"}
VttReturned == fmt_pc = "vtt_done"

\* Block k of the SRT output as specified.
SrtBlockSpecified(k) ==
    LET segment == fmt_segments[k]
    IN Decimal(k) \o <<"\n">>
       \o ClockTime(segment.start, ",") \o Arrow \o ClockTime(segment.end, ",") \o <<"\n">>
       \o (IF segment.speaker # None THEN <<"[", segment.speaker, "]", " ">> ELSE <<>>)
       \o ReplaceArrow(Strip(segment.text))

\* C14: the output of format_srt on n segments is n blocks separated by one
\* blank line; block i is the number i, a line HH:MM:SS,mmm --> HH:MM:SS,mmm
\* (comma, hours always there, hours, minutes and seconds of two digits,
\* milliseconds of three), then the text, behind "[speaker] " exactly when
\* the segment has a speaker.
C14_SrtBlocks ==
    SrtReturned => srt_content = Strip(Blocks([k \in 1..Len(fmt_segments) |-> SrtBlockSpecified(k)]))

\* The number of places of str where "-->" stands.
CountArrows(str) ==
    Cardinality({k \in 1..(Len(str) - 2) : SubSeq(str, k, k + 2) = <<"-", "-", ">">>})

\* C15: whatever the texts of the segments, no text body of the SRT output
\* holds "-->": the output has as many "-->" as timestamp lines.
C15_NoArrowInSrtText ==
    SrtReturned => CountArrows(srt_content) = Len(fmt_segments)

\* Block k of the WebVTT output as specified: the block of format_srt with
\* a period in the times and "<v speaker>" for "[speaker] ".
VttBlockSpecified(k) ==
    LET segment == fmt_segments[k]
    IN Decimal(k) \o <<"\n">>
       \o FormatTimestamp(segment.start, TRUE, ".") \o Arrow
       \o FormatTimestamp(segment.end, TRUE, ".") \o <<"\n">>
       \o (IF segment.speaker # None THEN <<"<", "v", " ", segment.speaker, ">">> ELSE <<>>)
       \o ReplaceArrow(Strip(segment.text))

\* C16: the output of format_vtt is built like that of format_srt (number,
\* timestamp line, text with "-->" replaced, blank line) and differs only by
\* the WEBVTT header line, the period in the times and the "<v speaker>"
\* prefix.
C16_VttLikeSrt ==
    VttReturned =>
        vtt_content = Strip(<<"W", "E", "B", "V", "T", "T", "\n", "\n">>
                            \o Blocks([k \in 1..Len(fmt_segments) |-> VttBlockSpecified(k)]))

\* C17: while no ASR model is loaded (startup not over, or its load failed
\* and the error was swallowed), every request, whatever its
\* response_format, ends with 503 and nothing of it is processed: no
\* temporary file, no conversion, no split, no diarization, no
\* transcription; GET /health answers and reports model_loaded false.
C17_NotLoadedIs503 ==
    ~asr_model =>
        /\ pc \in {"boot", "idle", "done"}
        /\ pc = "done" => status = 503
        /\ pc # "done" => status = 0
        /\ files = {}
        /\ duration = 0 /\ ffmpeg_calls = <<>> /\ audio_chunks = <<>>
        /\ diarizer = None /\ diarization_result = <<>>
        /\ i = 0 /\ raw_segments = <<>> /\ all_segments = <<>>
        /\ pc # "boot" => ENABLED Health
        /\ model_loaded \in {None, "False"}

\* The load failed, a request for an unsupported format got 503, and
\* /health reported no model.
C17_Witness ==
    /\ ~asr_model
    /\ pc = "done"
    /\ status = 503
    /\ response_format = "xml"
    /\ model_loaded = "False"

\* Whether the transcription of chunk j (1-based) raised or returned nothing.
ChunkFailed(j) == raw_segments[j].kind \in {"raise", "empty"}

\* C19: a chunk whose transcription raises or returns nothing contributes
\* an empty text and no segment; the segments of every chunk j (0-based) are
\* shifted by exactly j * chunk_duration whatever happened to the chunks
\* before it; and the request still completes successfully.
C19_FailedChunkIsEmpty ==
    /\ \A j \in 1..Len(raw_segments) :
        /\ ChunkFailed(j) => (all_text[j] = "" /\ raw_segments[j].segments = <<>>)
        /\ \A k \in 1..Len(raw_segments[j].segments) :
            LET raw == raw_segments[j].segments[k]
                seg == all_segments[SegmentsBefore(j) + k]
            IN /\ seg.start = raw.start + (j - 1) * chunk_duration * FrameRate
               /\ seg.end = raw.end + (j - 1) * chunk_duration * FrameRate
    /\ (pc = "transcribe" /\ i < Len(audio_chunks)) => ENABLED TranscribeChunk({AsrOutcome("raise", "", 0, <<>>)})
    /\ (Combined /\ pc = "done" /\ response_format \in SupportedFormats) => status = 200

\* Three chunks of one second: the first raises, the second returns
\* nothing, the third gives one segment, which ends up at [2, 3]; 200.
C19_Witness ==
    /\ pc = "done"
    /\ status = 200
    /\ chunk_duration = 1
    /\ Len(raw_segments) = 3
    /\ raw_segments[1].kind = "raise"
    /\ raw_segments[2].kind = "empty"
    /\ raw_segments[3].kind = "stamps"
    /\ all_text = <<"", "", SegmentText>>
    /\ Len(all_segments) = 1
    /\ all_segments[1].start = 2 * FrameRate /\ all_segments[1].end = 3 * FrameRate

\* C20: the chunks of a request are transcribed in increasing index order,
\* one at a time: when the loop stands at index i, exactly the chunks
\* audio_chunks[1..i] have been transcribed, each once, in that order, and
\* each had returned before the next one started.
C20_ChunksInOrder ==
    /\ Len(raw_segments) = i
    /\ Len(all_text) = i
    /\ i <= Len(audio_chunks)
    /\ \A j \in 1..Len(raw_segments) : raw_segments[j].path = audio_chunks[j]

\* Three chunk files transcribed one after the other.
C20_Witness ==
    /\ i = 3
    /\ [j \in 1..3 |-> raw_segments[j].path] = <<ChunkPath(0), ChunkPath(1), ChunkPath(2)>>
    /\ audio_chunks = <<ChunkPath(0), ChunkPath(1), ChunkPath(2)>>

\* C21: over any sequence of requests in one process, the ASR model is
\* loaded at most once and the diarization pipeline is instantiated at most
\* once.
C21_SingletonModelAndPipeline ==
    /\ model_loads <= 1
    /\ pipeline_loads <= 1

\* The handler of request r is past its read and not over.
Running(r) == requests[r].pc \in {"convert", "split", "diarizer", "transcribe", "in_model"}

\* The requests with a call of model.transcribe in progress.
InModel == {r \in 1..MaxRequests : requests[r].pc = "in_model"}

\* C22: on one event loop, with file.read() the only await of the handler,
\* at most one call into the shared ASR model is in progress at any time,
\* and from the end of its read to its end a request is the only one whose
\* handler makes progress.
C22_OneModelCallAtATime ==
    /\ [](Cardinality(InModel) <= 1)
    /\ [][\A r \in 1..MaxRequests : Running(r) =>
            \A q \in 1..MaxRequests \ {r} : requests'[q] = requests[q]]_vars

\* One request is inside model.transcribe while another one, which arrived
\* meanwhile or before, waits at its read.
C22_Witness ==
    \E r, q \in 1..MaxRequests :
        /\ requests[r].pc = "in_model"
        /\ requests[q].pc = "read"

\* The call of split_audio_into_chunks is over: the handler is at line 119.
SplitOver == pc = "diarizer_init"

\* chunk_0.wav .. chunk_(n-1).wav, in order.
AllChunkPaths(n) == [k \in 1..n |-> ChunkPath(k - 1)]

\* C23: split_audio_into_chunks never raises and never returns an empty or
\* a partial list: for every input and every failure point, the result is
\* the one-element list of the original path or the complete list of
\* ceil(D / C) chunk paths.
C23_SplitNeverEmptyOrPartial ==
    /\ pc \in {"split", "split_loop", "diarizer_init"}
    /\ status = 0
    /\ SplitOver =>
        /\ audio_chunks # <<>>
        /\ \/ audio_chunks = <<WavPath>>
           \/ /\ chunk_duration > 0
              /\ audio_chunks =
                    AllChunkPaths(CeilDiv(duration, chunk_duration * FrameRate))

====
